---- MODULE Spec2Model ----
(***************************************************************************)
(* A model of pygrf: the lazy GRF index (pygrf/grf.py, class Index), the   *)
(* archive object (class GRF), the per-file reader (class GRFFile) and the *)
(* payload dispatch (pygrf/filetypes.py, parse).                           *)
(*                                                                         *)
(* Bytes are naturals 0..255, byte strings are sequences of bytes, and a   *)
(* decoded (logical) filename is the sequence of its code points.  An      *)
(* archive is laid out from a list of (raw name, file kind) entries the    *)
(* way a GRF writer lays it out: the file bodies one after the other       *)
(* behind the 46-byte header, then the index records.                      *)
(***************************************************************************)
EXTENDS Integers, Sequences, FiniteSets, TLC

(* ------------------------------ bounds -------------------------------- *)

\* the most records an index blob of the main specifications holds
MaxRecords == 2

(* ------------------------- program constants -------------------------- *)

HEADER_LENGTH == 46
FILE_HEADER_LENGTH == 17

(* --------------------------- byte strings ----------------------------- *)

Min(a, b) == IF a < b THEN a ELSE b

\* s[a..b) in Python's slice notation over a 0-based string, clipped
Slice(s, a, b) == SubSeq(s, a + 1, Min(b, Len(s)))

\* struct.pack('<I', v)
PackU32(v) ==
    << v % 256, (v \div 256) % 256, (v \div 65536) % 256, (v \div 16777216) % 256 >>

\* struct.unpack('<I', s) of a 4-byte string
UnpackU32(s) == s[1] + 256 * s[2] + 65536 * s[3] + 16777216 * s[4]

\* b.startswith(prefix)
StartsWith(b, prefix) ==
    Len(b) >= Len(prefix) /\ SubSeq(b, 1, Len(prefix)) = prefix

RECURSIVE Concat(_)
Concat(ss) == IF ss = <<>> THEN <<>> ELSE Head(ss) \o Concat(Tail(ss))

\* zlib, as far as the archive reader depends on it: a stream is a length
\* byte and that many literal bytes (a stored block); bytes behind a complete
\* stream are ignored and an empty or cut stream is an error.
Compress(d) == <<Len(d)>> \o d

Decompress(s) ==
    IF s = <<>> \/ Len(s) < 1 + s[1]
    THEN [ok |-> FALSE, data |-> <<>>]
    ELSE [ok |-> TRUE, data |-> SubSeq(s, 2, 1 + s[1])]

(* ----------------------------- filenames ------------------------------ *)

BACKSLASH == 92
SEP == 47
DATA == <<100, 97, 116, 97>>

\* decode_name: the codecs are tried in order and the first that decodes
\* wins; on a part made of ASCII bytes only, euc_kr decodes every byte to
\* the code point of the same number.  Bytes >= 128 are outside the model.
decode_name(part) == [i \in 1..Len(part) |-> part[i]]

\* bytes.split(b'\\')
RECURSIVE Split(_)
Split(s) ==
    IF \E i \in 1..Len(s) : s[i] = BACKSLASH
    THEN LET i == CHOOSE k \in 1..Len(s) :
                     s[k] = BACKSLASH /\ \A j \in 1..(k - 1) : s[j] # BACKSLASH
         IN <<SubSeq(s, 1, i - 1)>> \o Split(SubSeq(s, i + 1, Len(s)))
    ELSE <<s>>

\* os.path.join on a POSIX host
RECURSIVE JoinFrom(_, _)
JoinFrom(acc, rest) ==
    IF rest = <<>> THEN acc
    ELSE LET b == Head(rest)
             next == IF b # <<>> /\ b[1] = SEP THEN b
                     ELSE IF acc = <<>> \/ acc[Len(acc)] = SEP THEN acc \o b
                     ELSE acc \o <<SEP>> \o b
         IN JoinFrom(next, Tail(rest))

\* parse_name: split on backslash, drop a leading 'data', decode the parts,
\* join them; os.path.join() of no part at all is a TypeError
parse_name(name) ==
    LET parts == Split(name)
        path == IF parts[1] = DATA THEN Tail(parts) ELSE parts
        dec == [i \in 1..Len(path) |-> decode_name(path[i])]
    IN IF path = <<>>
       THEN [ok |-> FALSE, name |-> <<>>]
       ELSE [ok |-> TRUE, name |-> JoinFrom(Head(dec), Tail(dec))]

(* --------------------------- archive layout --------------------------- *)

NameA == <<97>>
NameB == <<98>>
NameC == <<99>>
NameDataA == DATA \o <<BACKSLASH>> \o NameA

\* the decompressed content of a stored file of each kind
Payload(kind) ==
    CASE kind = "empty" -> <<>>
      [] kind = "hi" -> <<104, 105>>
      [] kind = "z" -> <<122>>
      [] kind = "badreal" -> <<104, 105>>
      [] kind = "real0" -> <<104, 105>>
      [] kind = "cut" -> <<104, 105>>
      [] kind = "grat" -> <<71, 82, 65, 84, 120>>

\* the bytes a file of each kind occupies in the archive
Stored(kind) == IF Payload(kind) = <<>> THEN <<>> ELSE Compress(Payload(kind))

\* the real_size and archived_size fields written for a file of each kind:
\* "badreal" declares one byte more than the payload has, "real0" declares
\* an empty file over a stored payload, "cut" archives one byte too few
RealSize(kind) ==
    CASE kind = "badreal" -> Len(Payload(kind)) + 1
      [] kind = "real0" -> 0
      [] OTHER -> Len(Payload(kind))

ArchivedSize(kind) ==
    IF kind = "cut" THEN Len(Stored(kind)) - 1 ELSE Len(Stored(kind))

\* the offset of entry i's body behind the archive header
BodyOffset(entries, i) ==
    Len(Concat([j \in 1..(i - 1) |-> Stored(entries[j].kind)]))

\* the 17 bytes of entry i's file header: three sizes, the flag, the position
\* (stored without the 46 bytes of the archive header)
FileHeaderBytes(entries, i) ==
    LET k == entries[i].kind
    IN PackU32(Len(Stored(k))) \o PackU32(ArchivedSize(k)) \o PackU32(RealSize(k))
       \o <<1>> \o PackU32(BodyOffset(entries, i))

\* the decompressed index: per entry the raw name, a null, the file header
IndexBlob(entries) ==
    Concat([i \in 1..Len(entries) |->
        entries[i].name \o <<0>> \o FileHeaderBytes(entries, i)])

Body(entries) == Concat([i \in 1..Len(entries) |-> Stored(entries[i].kind)])

\* the archive file: 46 header bytes (validated before the model starts, and
\* never read again), the bodies, the 8-byte index header, the packed index
StreamBytes(entries) ==
    [i \in 1..HEADER_LENGTH |-> 0] \o Body(entries)
    \o PackU32(Len(Compress(IndexBlob(entries)))) \o PackU32(Len(IndexBlob(entries)))
    \o Compress(IndexBlob(entries))

(* ----------------------- Index (pygrf/grf.py) ------------------------- *)

\* self.indexed is a dict: a sequence of (name, header) in insertion order
Keys(ix) == [i \in 1..Len(ix) |-> ix[i].name]

Has(ix, n) == \E i \in 1..Len(ix) : ix[i].name = n

Lookup(ix, n) == ix[CHOOSE i \in 1..Len(ix) : ix[i].name = n].header

\* self.indexed[filename] = header: a known key keeps its place
Put(ix, n, h) ==
    IF Has(ix, n)
    THEN [i \in 1..Len(ix) |->
             IF ix[i].name = n THEN [name |-> n, header |-> h] ELSE ix[i]]
    ELSE Append(ix, [name |-> n, header |-> h])

\* the end of the name that starts behind p: the place of the first null byte
\* behind p, or one past the data when there is none
name_end(blob, p) ==
    LET nulls == {j \in (p + 1)..Len(blob) : blob[j] = 0}
    IN IF nulls = {} THEN Len(blob) + 1
       ELSE CHOOSE k \in nulls : \A m \in nulls : k <= m

\* Index.parse_next once the name is read: filename the raw name, p1 the
\* cursor behind its null, pn what parse_name makes of it.  An empty name
\* raises EOFError, parse_name may raise TypeError (the name and its null are
\* consumed), and the next 17 bytes, or as many as are left, are stored under
\* the name
store_next(blob, p1, filename, pn, ix) ==
    IF filename = <<>>
    THEN [status |-> "EOFError", pos |-> p1, indexed |-> ix, name |-> <<>>]
    ELSE IF ~pn.ok
    THEN [status |-> "TypeError", pos |-> p1, indexed |-> ix, name |-> <<>>]
    ELSE [status |-> "ok", pos |-> Min(p1 + FILE_HEADER_LENGTH, Len(blob)),
          indexed |-> Put(ix, pn.name, Slice(blob, p1, p1 + FILE_HEADER_LENGTH)),
          name |-> pn.name]

\* Index.parse_next with the name ending at j: bytes are read up to a null
\* or the end of the data
read_name(blob, p, j, ix) ==
    store_next(blob, Min(j, Len(blob)), SubSeq(blob, p + 1, j - 1),
               parse_name(SubSeq(blob, p + 1, j - 1)), ix)

\* Index.parse_next with self.data holding blob and its cursor at p
parse_next(blob, p, ix) == read_name(blob, p, name_end(blob, p), ix)

\* the loop of Index.__getitem__: parse until the name turns up or EOFError;
\* r is what one parse_next gave
RECURSIVE getitem_loop(_, _, _, _)
getitem_step(blob, r, n) ==
    IF r.status = "EOFError"
    THEN [status |-> "KeyError", pos |-> r.pos, indexed |-> r.indexed,
          header |-> <<>>]
    ELSE IF r.status # "ok"
    THEN [status |-> r.status, pos |-> r.pos, indexed |-> r.indexed,
          header |-> <<>>]
    ELSE IF r.name = n
    THEN [status |-> "ok", pos |-> r.pos, indexed |-> r.indexed,
          header |-> Lookup(r.indexed, n)]
    ELSE getitem_loop(blob, r.pos, r.indexed, n)

getitem_loop(blob, p, ix, n) == getitem_step(blob, parse_next(blob, p, ix), n)

\* Index.__getitem__: the cache first, then the loop
Index_getitem(blob, p, ix, n) ==
    IF Has(ix, n)
    THEN [status |-> "ok", pos |-> p, indexed |-> ix, header |-> Lookup(ix, n)]
    ELSE getitem_loop(blob, p, ix, n)

(* ---------------------- GRFFile (pygrf/grf.py) ------------------------ *)

\* parse_file_header: '<III' of data[0:12], data[12], '<I' of data[13:17],
\* the position moved behind the archive header
parse_file_header(h) ==
    IF Len(h) < 12 \/ (Len(h) > 12 /\ Len(h) < FILE_HEADER_LENGTH)
    THEN [status |-> "struct.error"]
    ELSE IF Len(h) = 12
    THEN [status |-> "IndexError"]
    ELSE [status |-> "ok",
          compressed_size |-> UnpackU32(SubSeq(h, 1, 4)),
          archived_size |-> UnpackU32(SubSeq(h, 5, 8)),
          real_size |-> UnpackU32(SubSeq(h, 9, 12)),
          flag |-> h[13],
          position |-> UnpackU32(SubSeq(h, 14, 17)) + HEADER_LENGTH]

\* GRFFile.__init__ on an open stream: seek to the position, then nothing is
\* read for real_size 0, and archived_size bytes are read and decompressed
\* otherwise.  The result carries the stream's cursor after the call.
GRFFile_init(stream, h) ==
    LET fh == parse_file_header(h)
        raw == Slice(stream, fh.position, fh.position + fh.archived_size)
        z == Decompress(raw)
    IN IF fh.status # "ok"
       THEN [status |-> fh.status, data |-> <<>>, seeked |-> FALSE, cursor |-> 0]
       ELSE IF fh.real_size = 0
       THEN [status |-> "ok", data |-> <<>>, seeked |-> TRUE, cursor |-> fh.position]
       ELSE [status |-> IF z.ok THEN "ok" ELSE "zlib.error",
             data |-> z.data, seeked |-> TRUE, cursor |-> fh.position + Len(raw)]

(* --------------------- dispatch (pygrf/filetypes.py) ------------------ *)

SIG_AC == <<65, 67>>
SIG_SP == <<83, 80>>
SIG_GRAT == <<71, 82, 65, 84>>
GAT_SIGNATURE == <<71, 82, 65, 84, 1, 2>>
GAT_HEADER_LENGTH == 14
TILE_LENGTH == 20

\* struct.unpack('<H', s) of a 2-byte string
UnpackU16(s) == s[1] + 256 * s[2]

\* GAT.__init__ (pygrf/gat.py): the 14-byte header with its 6-byte signature,
\* the rest split into chunks of 20 bytes, the chunk count compared with
\* width * height, then the length of the last chunk
GAT_init(data) ==
    LET hd == Slice(data, 0, GAT_HEADER_LENGTH)
        width == UnpackU32(SubSeq(hd, 7, 10))
        height == UnpackU32(SubSeq(hd, 11, 14))
        rest == Len(data) - GAT_HEADER_LENGTH
        chunks == (rest + TILE_LENGTH - 1) \div TILE_LENGTH
    IN IF Slice(hd, 0, 6) # GAT_SIGNATURE THEN "InvalidGATError"
       ELSE IF Len(hd) < GAT_HEADER_LENGTH THEN "struct.error"
       ELSE IF chunks # width * height THEN "InvalidGATError"
       ELSE IF chunks = 0 THEN "IndexError"
       ELSE IF rest % TILE_LENGTH # 0 THEN "InvalidGATError"
       ELSE "ok"

\* SPR.__init__ (pygrf/spr.py): _parse_header unpacks '<2sH' from the first
\* four bytes, _get_parser looks the version up; nothing else is read
SPR_init(data) ==
    IF ~StartsWith(data, SIG_SP) \/ Len(data) < 4 THEN "FileParseError"
    ELSE IF UnpackU16(SubSeq(data, 3, 4)) \notin {256, 257, 512, 513}
    THEN "FileParseError"
    ELSE "ok"

\* the branch filetypes.parse takes on the payload's bytes
parse_branch(data) ==
    IF StartsWith(data, SIG_AC) THEN "ACT"
    ELSE IF StartsWith(data, SIG_SP) THEN "SPR"
    ELSE IF StartsWith(data, SIG_GRAT) THEN "GAT"
    ELSE "raw"

(* ------------------------- ACT (pygrf/act.py) ------------------------- *)

\* struct.unpack('<i', s) of a 4-byte string
UnpackI32(s) ==
    s[1] + 256 * s[2] + 65536 * s[3]
    + 16777216 * (IF s[4] >= 128 THEN s[4] - 256 ELSE s[4])

\* stream.read(n) followed by struct.unpack of n bytes, the cursor at off: the
\* cursor behind the read, or -1 for the struct.error of a short read
Need(data, off, n) == IF off >= 0 /\ off + n <= Len(data) THEN off + n ELSE -1

\* stream.read(n) of bytes that are thrown away: no error at the end of the
\* data, and a negative n reads all that is left
Skip(data, off, n) ==
    IF off < 0 THEN -1 ELSE IF n < 0 THEN Len(data) ELSE Min(off + n, Len(data))

\* parse_layer: the cursor behind one layer
parse_layer(data, off, version) ==
    LET o1 == Need(data, off, 16)
        o2 == IF version >= 512 THEN Need(data, o1, 4) ELSE o1
        o3 == IF version >= 516 THEN Need(data, o2, 8)
              ELSE IF version >= 512 THEN Need(data, o2, 4) ELSE o2
        o4 == IF version >= 512 THEN Need(data, o3, 4) ELSE o3
    IN IF version >= 517 THEN Skip(data, o4, 12)
       ELSE IF version >= 512 THEN Skip(data, o4, 4) ELSE o4

RECURSIVE parse_layers(_, _, _, _)
parse_layers(data, off, version, n) ==
    IF off < 0 \/ n <= 0 THEN off
    ELSE parse_layers(data, parse_layer(data, off, version), version, n - 1)

\* parse_frame: 32 unused bytes and the layer count, the layers, the trigger
\* id from 0x200, the anchors from 0x203
parse_frame(data, off, version) ==
    LET o1 == Need(data, off, 36)
        layer_count == UnpackI32(SubSeq(data, off + 33, off + 36))
        o2 == IF o1 < 0 THEN -1 ELSE parse_layers(data, o1, version, layer_count)
        o3 == IF version >= 512 THEN Need(data, o2, 4) ELSE o2
        o4 == IF version >= 515 THEN Need(data, o3, 4) ELSE o3
        count == UnpackI32(SubSeq(data, o3 + 1, o3 + 4))
    IN IF version >= 515 /\ o4 >= 0 THEN Skip(data, o4, 16 * count) ELSE o4

RECURSIVE parse_frames(_, _, _, _)
parse_frames(data, off, version, n) ==
    IF off < 0 \/ n <= 0 THEN off
    ELSE parse_frames(data, parse_frame(data, off, version), version, n - 1)

\* parse_animation: the frame count and the frames
parse_animation(data, off, version) ==
    LET o1 == Need(data, off, 4)
        frame_count == UnpackI32(SubSeq(data, off + 1, off + 4))
    IN IF o1 < 0 THEN -1 ELSE parse_frames(data, o1, version, frame_count)

RECURSIVE parse_animations(_, _, _, _)
parse_animations(data, off, version, n) ==
    IF off < 0 \/ n <= 0 THEN off
    ELSE parse_animations(data, parse_animation(data, off, version), version, n - 1)

\* parse_triggers: the count, then one read of 40 bytes per trigger (a read at
\* the end of the data returns what is left)
parse_triggers(data, off) ==
    LET o1 == Need(data, off, 4)
        count == UnpackI32(SubSeq(data, off + 1, off + 4))
    IN IF o1 < 0 THEN -1
       ELSE IF count <= 0 THEN o1 ELSE Min(o1 + 40 * count, Len(data))

\* ACT.__init__: get_version with no list of supported versions, the
\* animation count, the animations, the triggers, the intervals (iter_unpack
\* of the rest wants a multiple of 4 bytes).  Every failure is a struct.error.
ACT_init(data) ==
    LET version == UnpackU16(SubSeq(data, 3, 4))
        count == UnpackU16(SubSeq(data, 5, 6))
        o1 == IF Len(data) < 16 THEN -1
              ELSE parse_animations(data, 16, version, count)
        o2 == IF o1 < 0 THEN -1 ELSE parse_triggers(data, o1)
    IN IF o2 < 0 \/ (Len(data) - o2) % 4 # 0 THEN "struct.error" ELSE "ok"

\* filetypes.parse: the payload goes to the parser its first bytes name, and
\* comes back as it is when they name none
parse(data) ==
    LET b == parse_branch(data)
    IN [parser |-> b,
        status |-> CASE b = "ACT" -> ACT_init(data)
                     [] b = "SPR" -> SPR_init(data)
                     [] b = "GAT" -> GAT_init(data)
                     [] OTHER -> "ok"]

(* ------------------------------- state -------------------------------- *)

VARIABLES
    obj,            \* the object a file type's class built from a buffer, or the buffer
    entries,        \* the entries the archive was laid out from (never changes)
    stream,         \* the bytes of GRF.stream, the archive file (never changes)
    header,         \* GRF.header, from parse_header
    data,           \* the bytes of Index.data, the decompressed index
    data_pos,       \* the cursor of Index.data
    indexed,        \* Index.indexed
    stream_closed,  \* GRF.stream.closed
    stream_pos,     \* the cursor of GRF.stream
    close_calls,    \* how often stream.close() was called
    scope,          \* the with-statement over the archive: none, entered, exited
    iters,          \* the live generators of Index.__iter__ and GRF.__iter__
    result,         \* what the last call returned or raised
    first_open,     \* per name, the first payload open(name) returned
    disk            \* the files extract() wrote: path under data/ and content

vars == << obj, entries, stream, header, data, data_pos, indexed, stream_closed, stream_pos,
           close_calls, scope, iters, result, first_open, disk >>

\* the names the calls of the model ask for; no entry is ever named c
QueryNames == {NameA, NameB, NameC}

NoResult == [op |-> "none", name |-> <<>>, status |-> "none", value |-> <<>>,
             parser |-> "none"]

\* no buffer was handed to GAT, SPR or ACT
NoObject == [kind |-> "none", status |-> "none"]

\* no file was opened
NoOpen == [status |-> "none", pos |-> 0, indexed |-> <<>>, cursor |-> 0,
           filename |-> <<>>, data |-> <<>>, parser |-> "none"]

\* a generator: phase new (created, not started), dict (inside yield from
\* self.indexed), parse (inside the parse_next loop), done, failed, and idle
\* for a free slot.  dpos and dused are the dict iterator's position and the
\* dict size it was created over.  The other fields record the run: out what
\* was yielded, snap and pos0 the keys and the cursor found at the first step,
\* last the cursor the generator's own last step left, clean whether the index
\* was left alone between the generator's steps, prev the output of the full
\* undisturbed iteration that ended right before this one was created.
IdleIter == [phase |-> "idle", kind |-> "index", dpos |-> 0, dused |-> 0,
             out |-> <<>>, snap |-> <<>>, pos0 |-> 0, clean |-> TRUE,
             last |-> 0, error |-> "none", prev |-> <<>>]

Iters == {1, 2}

\* GRF.open that failed with st: g the lookup's outcome, cur the stream cursor
open_failed(g, st, cur, n) ==
    [status |-> st, pos |-> g.pos, indexed |-> g.indexed, cursor |-> cur,
     filename |-> n, data |-> <<>>, parser |-> "none"]

\* GRF.open behind GRFFile: f the file read, d what filetypes.parse made of it
open_parsed(g, f, d, n) ==
    IF f.status # "ok" THEN open_failed(g, f.status, f.cursor, n)
    ELSE [status |-> d.status, pos |-> g.pos, indexed |-> g.indexed,
          cursor |-> f.cursor, filename |-> n, data |-> f.data,
          parser |-> d.parser]

\* GRF.open behind GRFFile: the payload goes through filetypes.parse
open_read(g, f, n) == open_parsed(g, f, parse(f.data), n)

\* GRF.open behind the lookup: KeyError becomes FileNotFoundError, GRFFile
\* parses the 17 header bytes and then seeks, which a closed stream refuses
open_found(g, fh, closed, cursor, n) ==
    IF g.status = "KeyError" THEN open_failed(g, "FileNotFoundError", cursor, n)
    ELSE IF g.status # "ok" THEN open_failed(g, g.status, cursor, n)
    ELSE IF fh.status # "ok" THEN open_failed(g, fh.status, cursor, n)
    ELSE IF closed THEN open_failed(g, "ValueError", cursor, n)
    ELSE open_read(g, GRFFile_init(stream, g.header), n)

\* the header bytes of a lookup that found them
found_header(g) == IF g.status = "ok" THEN parse_file_header(g.header)
                   ELSE [status |-> "none"]

\* GRF.open with the index at (p, ix): the lookup, GRFFile, filetypes.parse
open_lookup(g, closed, cursor, n) == open_found(g, found_header(g), closed, cursor, n)

GRF_open(p, ix, closed, cursor, n) ==
    open_lookup(Index_getitem(data, p, ix, n), closed, cursor, n)

SeqsUpTo(S, n) == UNION {[1..k -> S] : k \in 0..n}

\* the state parse_header and Index.__init__ leave over an archive: the index
\* decompressed and unread, the stream's cursor behind the packed index
Constructed ==
    /\ obj = NoObject
    /\ stream = StreamBytes(entries)
    /\ data = IndexBlob(entries)
    /\ header = [file_count |-> Len(entries),
                 index_offset |-> HEADER_LENGTH + Len(Body(entries))]
    /\ data_pos = 0
    /\ indexed = <<>>
    /\ stream_closed = FALSE
    /\ stream_pos = Len(stream)
    /\ close_calls = 0
    /\ scope = "none"
    /\ iters = [i \in Iters |-> IdleIter]
    /\ result = NoResult
    /\ first_open = [n \in QueryNames |-> <<>>]
    /\ disk = {}

\* len(archive)
GRF_len == header.file_count

(* ------------------------------ actions ------------------------------- *)

\* Index.__getitem__(n)
Get(n) ==
    \E g \in {Index_getitem(data, data_pos, indexed, n)} :
       /\ data_pos' = g.pos
       /\ indexed' = g.indexed
       /\ result' = [op |-> "get", name |-> n, status |-> g.status,
                     value |-> g.header, parser |-> "none"]
       /\ UNCHANGED << obj, entries, stream, header, data, stream_closed, stream_pos,
                       close_calls, scope, iters, first_open, disk >>

\* the first payload a name was opened with: <<payload>>, or <<>> before
Remember(fo, r) ==
    IF r.status = "ok" /\ r.filename \in DOMAIN fo /\ fo[r.filename] = <<>>
    THEN [fo EXCEPT ![r.filename] = <<[filename |-> r.filename, data |-> r.data]>>]
    ELSE fo

\* GRF.open(n)
Open(n) ==
    \E r \in {GRF_open(data_pos, indexed, stream_closed, stream_pos, n)} :
       /\ data_pos' = r.pos
       /\ indexed' = r.indexed
       /\ stream_pos' = r.cursor
       /\ result' = [op |-> "open", name |-> n, status |-> r.status,
                     value |-> r.data, parser |-> r.parser]
       /\ first_open' = Remember(first_open, r)
       /\ UNCHANGED << obj, entries, stream, header, data, stream_closed, close_calls,
                       scope, iters, disk >>

\* iter(index), archive.files() (kind index) or iter(archive) (kind archive):
\* a generator is created, nothing of its body has run, and the generator the
\* caller held in the slot before is dropped
IterStart(i, kind) ==
    LET old == iters[i]
        full == old.phase = "done" /\ old.clean /\ old.last = data_pos
    IN /\ iters' = [iters EXCEPT ![i] =
                      [IdleIter EXCEPT !.phase = "new", !.kind = kind,
                                       !.prev = IF full THEN <<old.out>> ELSE <<>>]]
       /\ UNCHANGED << obj, entries, stream, header, data, data_pos, indexed,
                       stream_closed, stream_pos, close_calls, scope, result,
                       first_open, disk >>

\* next() on generator i: the body runs to its next yield, or to its end
IterNext(i) ==
    /\ iters[i].phase \in {"new", "dict", "parse"}
    /\ \E it \in {IF iters[i].phase = "new"
                  THEN [iters[i] EXCEPT !.phase = "dict", !.dused = Len(indexed),
                                        !.snap = Keys(indexed), !.pos0 = data_pos,
                                        !.last = data_pos]
                  ELSE iters[i]} :
       \E r \in {parse_next(data, data_pos, indexed)} :
          LET changed == it.phase = "dict" /\ Len(indexed) # it.dused
              hit == it.phase = "dict" /\ ~changed /\ it.dpos < Len(indexed)
              name == IF hit THEN indexed[it.dpos + 1].name ELSE r.name
              p1 == IF changed \/ hit THEN data_pos ELSE r.pos
              ix1 == IF changed \/ hit THEN indexed ELSE r.indexed
              yields == hit \/ (~changed /\ r.status = "ok")
              opens == yields /\ it.kind = "archive"
          IN \E o \in {IF opens
                       THEN GRF_open(p1, ix1, stream_closed, stream_pos, name)
                       ELSE NoOpen} :
                \E itc \in {[it EXCEPT !.clean = it.clean /\ it.last = data_pos,
                                       !.last = p1]} :
                   /\ data_pos' = p1
                   /\ indexed' = ix1
                   /\ stream_pos' = IF opens THEN o.cursor ELSE stream_pos
                   /\ first_open' = IF opens THEN Remember(first_open, o)
                                    ELSE first_open
                   /\ iters' = [iters EXCEPT ![i] =
                        IF changed
                        THEN [itc EXCEPT !.phase = "failed", !.error = "RuntimeError"]
                        ELSE IF ~yields /\ r.status = "EOFError"
                        THEN [itc EXCEPT !.phase = "done"]
                        ELSE IF ~yields
                        THEN [itc EXCEPT !.phase = "failed", !.error = r.status]
                        ELSE IF opens /\ o.status # "ok"
                        THEN [itc EXCEPT !.phase = "failed", !.error = o.status,
                                         !.dpos = IF hit THEN it.dpos + 1 ELSE it.dpos]
                        ELSE IF hit
                        THEN [itc EXCEPT !.dpos = it.dpos + 1,
                                         !.out = Append(it.out, name)]
                        ELSE [itc EXCEPT !.phase = "parse",
                                         !.out = Append(it.out, name)]]
                   /\ UNCHANGED << obj, entries, stream, header, data, stream_closed,
                                   close_calls, scope, result, disk >>

\* GRF.extract(n, parent_dir): the opened payload is rewound and written to
\* parent_dir/data/<name>; an SPR object has no seek()
Extract(n) ==
    \E r \in {GRF_open(data_pos, indexed, stream_closed, stream_pos, n)} :
       LET st == IF r.status = "ok" /\ r.parser = "SPR" THEN "AttributeError"
                 ELSE r.status
       IN /\ data_pos' = r.pos
          /\ indexed' = r.indexed
          /\ stream_pos' = r.cursor
          /\ result' = [op |-> "extract", name |-> n, status |-> st,
                        value |-> r.data, parser |-> r.parser]
          /\ first_open' = Remember(first_open, r)
          /\ disk' = IF st = "ok"
                     THEN {f \in disk : f.path # n}
                          \cup {[path |-> n, data |-> r.data]}
                     ELSE disk
          /\ UNCHANGED << obj, entries, stream, header, data, stream_closed,
                          close_calls, scope, iters >>

\* filetypes.parse(stream) on a stream holding the bytes d
Parse(d) ==
    /\ result' = [op |-> "parse", name |-> <<>>, status |-> parse(d).status,
                  value |-> d, parser |-> parse(d).parser]
    /\ UNCHANGED << obj, entries, stream, header, data, data_pos, indexed,
                    stream_closed, stream_pos, close_calls, scope, iters,
                    first_open, disk >>

\* the most calls of close() a behaviour makes
MaxCloses == 2

\* GRF.close()
Close ==
    /\ close_calls < MaxCloses
    /\ stream_closed' = TRUE
    /\ close_calls' = close_calls + 1
    /\ UNCHANGED << obj, entries, stream, header, data, data_pos, indexed, stream_pos,
                    scope, iters, result, first_open, disk >>

\* GRF.__enter__: with archive as grf
Enter ==
    /\ scope = "none"
    /\ scope' = "entered"
    /\ UNCHANGED << obj, entries, stream, header, data, data_pos, indexed,
                    stream_closed, stream_pos, close_calls, iters, result,
                    first_open, disk >>

\* __exit__ without its call of close()
Exit_NoClose ==
    /\ scope = "entered"
    /\ scope' = "exited"
    /\ UNCHANGED << obj, entries, stream, header, data, data_pos, indexed,
                    stream_closed, stream_pos, close_calls, iters, result,
                    first_open, disk >>

\* GRF.__exit__: the end of the with block, which calls close()
Exit ==
    /\ scope = "entered"
    /\ scope' = "exited"
    /\ stream_closed' = TRUE
    /\ close_calls' = close_calls + 1
    /\ UNCHANGED << obj, entries, stream, header, data, data_pos, indexed, stream_pos,
                    iters, result, first_open, disk >>

(* --------------------------- specifications --------------------------- *)

\* the archives of the index specification: up to MaxRecords records under
\* plain, prefixed (data\a is a again) and data-only raw names, each over a
\* stored file of its own
RawNames == {NameA, NameB, NameDataA, DATA}

Init ==
    /\ entries \in SeqsUpTo([name : RawNames, kind : {"hi"}], MaxRecords)
    /\ Constructed

\* the index: lookups, opens and one generator at a time over Index
Next ==
    \/ \E n \in QueryNames : Get(n)
    \/ \E n \in QueryNames : Open(n)
    \/ IterStart(1, "index")
    \/ IterNext(1)

Spec == Init /\ [][Next]_vars

\* the archive's files: stored files of several kinds (a payload, an empty
\* file, a real_size that is not the payload's length) under names that may
\* repeat, read by open() and by iterating the archive
ArchiveNames == {NameA, NameB, NameDataA}
ArchiveKinds == {"hi", "empty", "badreal"}

InitArchive ==
    /\ entries \in SeqsUpTo([name : ArchiveNames, kind : ArchiveKinds], MaxRecords)
    /\ Constructed

NextArchive ==
    \/ \E n \in QueryNames : Get(n)
    \/ \E n \in QueryNames : Open(n)
    \/ \E k \in {"index", "archive"} : IterStart(1, k)
    \/ IterNext(1)

SpecArchive == InitArchive /\ [][NextArchive]_vars

\* the archive's lifetime: every call of GRF, with close() and the with
\* statement, over archives of up to MaxRecords files named a, b, ...
PlainEntries(k) == [i \in 1..k |-> [name |-> <<96 + i>>, kind |-> "hi"]]

InitScope ==
    /\ entries \in {PlainEntries(k) : k \in 0..MaxRecords}
    /\ Constructed

NextScope ==
    \/ \E n \in {NameA, NameC} : Get(n)
    \/ \E n \in {NameA, NameC} : Open(n)
    \/ \E n \in {NameA, NameC} : Extract(n)
    \/ \E k \in {"index", "archive"} : IterStart(1, k)
    \/ IterNext(1)
    \/ Close
    \/ Enter
    \/ Exit

SpecScope == InitScope /\ [][NextScope]_vars

\* the dispatch on its own: filetypes.parse applied to payloads made of a
\* head (a signature, a part of one, or none) and up to MaxTail more bytes,
\* and to one well-formed ACT and GAT file
MaxTail == 2

Heads == {<<>>, SIG_AC, SIG_SP, SIG_GRAT, GAT_SIGNATURE, <<71, 82, 65>>, <<65>>,
          <<104, 105>>}

Zeros(n) == [i \in 1..n |-> 0]

WellFormed == {SIG_AC \o Zeros(18),
               GAT_SIGNATURE \o PackU32(1) \o PackU32(1) \o Zeros(TILE_LENGTH)}

Payloads == {h \o t : h \in Heads, t \in SeqsUpTo({0, 1, 120}, MaxTail)} \cup WellFormed

InitParse ==
    /\ entries = <<>>
    /\ Constructed

NextParse == \E d \in Payloads : Parse(d)

SpecParse == InitParse /\ [][NextParse]_vars

(* ------------------------- iteration of the index --------------------- *)

\* a generator over the index that ran to its end, by exhaustion or by an
\* error, while nothing else touched the index between its steps
Finished(it) == it.phase \in {"done", "failed"} /\ it.clean

\* s starts with the sequence pre
Prefix(pre, s) == Len(pre) <= Len(s) /\ SubSeq(s, 1, Len(pre)) = pre

\* the record stored under the raw name raw is among the names out
Yielded(out, raw) ==
    /\ parse_name(raw).ok
    /\ \E j \in 1..Len(out) : out[j] = parse_name(raw).name

\* C1: a full iteration of the index, whatever lookups or partial iterations
\* came before it, runs to exhaustion and yields first the entries cached when
\* it started, in insertion order, and then the rest, so that every record of
\* the index blob is yielded at least once.
C1_FullIterationYieldsEveryRecord ==
    \A i \in Iters :
        (iters[i].kind = "index" /\ Finished(iters[i])) =>
            /\ iters[i].phase = "done"
            /\ Prefix(iters[i].snap, iters[i].out)
            /\ \A k \in 1..Len(entries) : Yielded(iters[i].out, entries[k].name)

\* C2: a full iteration of the index that follows a full iteration of the
\* same index yields the same names, with the same headers, in the same
\* order, and parses nothing: its cursor ends where it started.
C2_ConsecutiveIterationsEqual ==
    \A i \in Iters :
        (iters[i].kind = "index" /\ iters[i].prev # <<>> /\ Finished(iters[i])) =>
            /\ iters[i].phase = "done"
            /\ iters[i].out = iters[i].prev[1]
            /\ iters[i].last = iters[i].pos0

\* the logical names of the records in the order the index blob stores them
DiskNames == [k \in 1..Len(entries) |-> parse_name(entries[k].name).name]

\* C3: a full iteration of the index yields the names in the on-disk order of
\* the records, on a fresh index and on one whose cache earlier lookups have
\* partly filled.
C3_IterationInDiskOrder ==
    \A i \in Iters :
        (iters[i].kind = "index" /\ Finished(iters[i])) =>
            /\ iters[i].phase = "done"
            /\ iters[i].out = DiskNames

(* ------------------------------- lookups ------------------------------ *)

\* the records of the index blob whose logical name is n
RecordsNamed(n) ==
    {k \in 1..Len(entries) :
        parse_name(entries[k].name).ok /\ parse_name(entries[k].name).name = n}

\* C4: index[name] returns the header of a record named name when the blob
\* holds one and raises KeyError (NotFound) exactly when it holds none,
\* however far the index was parsed before; open(name) raises
\* FileNotFoundError in exactly the same case.
C4_LookupFindsOrNotFound ==
    /\ result.op = "get" =>
         IF RecordsNamed(result.name) = {}
         THEN result.status = "KeyError"
         ELSE /\ result.status = "ok"
              /\ \E k \in RecordsNamed(result.name) :
                     result.value = FileHeaderBytes(entries, k)
    /\ result.op = "open" =>
         (result.status = "FileNotFoundError" <=> RecordsNamed(result.name) = {})

(* ------------------------------ the archive --------------------------- *)

\* C5: len(archive), the header's file_count, is the number of files one full
\* iteration of the archive produces and the number of entries the index
\* holds once it is fully parsed.
C5_LenIsIterationAndIndexCount ==
    \A i \in Iters :
        (iters[i].kind = "archive" /\ Finished(iters[i])) =>
            /\ iters[i].phase = "done"
            /\ Len(iters[i].out) = GRF_len
            /\ Len(indexed) = GRF_len

\* C6: once close() was called, every further access fails with the error of
\* a closed stream and returns no data: a lookup, open or extract that runs
\* on the closed archive ends in ValueError, and a step of an iteration
\* (files(), iter(archive)) on it ends the iteration with ValueError.
C6_AccessAfterCloseFails ==
    [][stream_closed =>
         /\ result' # result => result'.status = "ValueError"
         /\ \A i \in Iters :
              (iters'[i] # iters[i] /\ iters'[i].phase # "new") =>
                  (iters'[i].phase = "failed" /\ iters'[i].error = "ValueError")
      ]_vars

\* C7: an archive used in a with statement has its source stream closed when
\* the block is left; leaving the block closes the stream exactly once; and a
\* closed stream stays closed, so that an explicit close() before or after
\* the exit leaves the source closed as well.
C7_ScopeExitClosesOnce ==
    /\ [](scope = "exited" => stream_closed)
    /\ [][(scope = "entered" /\ scope' = "exited") =>
             (stream_closed' /\ close_calls' = close_calls + 1)]_vars
    /\ [][stream_closed => stream_closed']_vars

\* the with block was left after an explicit close() inside it, and after
\* files were read in it
C7_Witness ==
    /\ scope = "exited"
    /\ close_calls = 2
    /\ result.op = "open" /\ result.status = "ok"

(* --------------------------- open and payloads ------------------------ *)

\* what the claim has open() do with record k: nothing is read when
\* real_size is 0, otherwise the archived bytes are unpacked and accepted
\* only when their length is real_size
Checked(k) ==
    LET kind == entries[k].kind
        at == HEADER_LENGTH + BodyOffset(entries, k)
        z == Decompress(Slice(stream, at, at + ArchivedSize(kind)))
    IN IF RealSize(kind) = 0 THEN [ok |-> TRUE, data |-> <<>>]
       ELSE IF z.ok /\ Len(z.data) = RealSize(kind) THEN [ok |-> TRUE, data |-> z.data]
       ELSE [ok |-> FALSE, data |-> <<>>]

\* C8: open(name) of a stored file gives an empty payload when real_size is 0;
\* otherwise it unpacks archived_size bytes at position and succeeds, with
\* the unpacked bytes, only when their length is real_size; a length mismatch
\* is an error and no payload is returned.
C8_OpenChecksRealSize ==
    (result.op = "open" /\ RecordsNamed(result.name) # {}) =>
        \E k \in RecordsNamed(result.name) :
            IF Checked(k).ok
            THEN result.status = "ok" /\ result.value = Checked(k).data
            ELSE result.status # "ok"

\* C9: on an open archive, a successful open(name) returns the payload the
\* first successful open of that name returned, same filename and same
\* bytes, whatever opens, lookups and iterations ran in between.
C9_OpenIdempotent ==
    (result.op = "open" /\ result.status = "ok" /\ result.name \in DOMAIN first_open) =>
        first_open[result.name] =
            <<[filename |-> result.name, data |-> result.value]>>

(* ------------------------------- dispatch ----------------------------- *)

\* the parser the claim has the leading bytes of a payload select
Selected(d) ==
    IF StartsWith(d, SIG_AC) THEN "ACT"
    ELSE IF StartsWith(d, SIG_SP) THEN "SPR"
    ELSE IF StartsWith(d, GAT_SIGNATURE) THEN "GAT"
    ELSE "raw"

\* C10: the dispatch goes by the leading bytes alone: 'AC' selects the ACT
\* parser, 'SP' the SPR parser, the six bytes 'GRAT' 1 2 the GAT parser, and
\* every other payload, 'GRAT' followed by other bytes included, comes back
\* as raw bytes without an error.
C10_DispatchBySignature ==
    result.op = "parse" =>
        /\ result.parser = Selected(result.value)
        /\ Selected(result.value) = "raw" => result.status = "ok"

(* ------------------- the archive header (pygrf/grf.py) ---------------- *)

MASTER_OF_MAGIC == <<77, 97, 115, 116, 101, 114, 32, 111, 102, 32, 77, 97, 103, 105, 99>>

\* ENCRYPTION_FLAGS: bytes(range(15)) allows encrypted files, 15 zeros do not
ENCRYPTION_ON == [i \in 1..15 |-> i - 1]
ENCRYPTION_OFF == Zeros(15)

SUPPORTED_VERSIONS == {512}

\* version &= 0xff00 on an unsigned 32-bit value
MajorVersion(v) == ((v \div 256) % 256) * 256

\* parse_header left with GRFParseError(msg), or with a struct.error
header_error(msg) == [status |-> "GRFParseError", message |-> msg]
header_short == [status |-> "struct.error", message |-> "none"]

\* parse_header with every check but the file count's
parse_header_NoCount(source) ==
    LET hd == Slice(source, 0, HEADER_LENGTH)
    IN IF Slice(hd, 0, 15) # MASTER_OF_MAGIC THEN header_error("missing signature")
       ELSE IF Slice(hd, 15, 30) \notin {ENCRYPTION_ON, ENCRYPTION_OFF}
       THEN header_error("invalid encryption flag")
       ELSE IF Len(hd) < 46 THEN header_short
       ELSE IF MajorVersion(UnpackU32(SubSeq(hd, 43, 46))) \notin SUPPORTED_VERSIONS
       THEN header_error("unsupported version")
       ELSE [status |-> "ok", message |-> "none",
             encryption |-> Slice(hd, 15, 30) = ENCRYPTION_ON,
             index_offset |-> UnpackU32(SubSeq(hd, 31, 34)) + HEADER_LENGTH,
             file_count |-> UnpackU32(SubSeq(hd, 39, 42))
                            - UnpackU32(SubSeq(hd, 35, 38)) - 7,
             version |-> MajorVersion(UnpackU32(SubSeq(hd, 43, 46)))]

\* parse_header: the first 46 bytes of the stream, or as many as there are;
\* the signature, the encryption flag, the offset, the two counts (b before
\* a), the version, each checked where the code checks it
parse_header(source) ==
    LET hd == Slice(source, 0, HEADER_LENGTH)
    IN IF Slice(hd, 0, 15) # MASTER_OF_MAGIC THEN header_error("missing signature")
       ELSE IF Slice(hd, 15, 30) \notin {ENCRYPTION_ON, ENCRYPTION_OFF}
       THEN header_error("invalid encryption flag")
       ELSE IF Len(hd) < 42 THEN header_short
       ELSE IF UnpackU32(SubSeq(hd, 39, 42)) - UnpackU32(SubSeq(hd, 35, 38)) - 7 < 0
       THEN header_error("invalid file count")
       ELSE IF Len(hd) < 46 THEN header_short
       ELSE IF MajorVersion(UnpackU32(SubSeq(hd, 43, 46))) \notin SUPPORTED_VERSIONS
       THEN header_error("unsupported version")
       ELSE [status |-> "ok", message |-> "none",
             encryption |-> Slice(hd, 15, 30) = ENCRYPTION_ON,
             index_offset |-> UnpackU32(SubSeq(hd, 31, 34)) + HEADER_LENGTH,
             file_count |-> UnpackU32(SubSeq(hd, 39, 42))
                            - UnpackU32(SubSeq(hd, 35, 38)) - 7,
             version |-> MajorVersion(UnpackU32(SubSeq(hd, 43, 46)))]

\* parse_header(stream) on a stream not read before: seek(0), read(46), then
\* the checks
ParseHeader ==
    /\ result = NoResult
    /\ \E h \in {parse_header(stream)} :
         result' = [op |-> "parse_header", name |-> <<>>,
                    status |-> h.status, value |-> stream,
                    parser |-> "none", header |-> h]
    /\ stream_pos' = Min(Len(stream), HEADER_LENGTH)
    /\ UNCHANGED << obj, entries, stream, header, data, data_pos, indexed,
                    stream_closed, close_calls, scope, iters, first_open, disk >>

\* the headers parse_header is applied to: the six fields drawn on their
\* own, whole or cut short, and one with bytes behind it
HeaderSignatures == {MASTER_OF_MAGIC, [MASTER_OF_MAGIC EXCEPT ![15] = 107], Zeros(15)}
HeaderFlags == {ENCRYPTION_ON, ENCRYPTION_OFF, [ENCRYPTION_OFF EXCEPT ![15] = 1],
                [ENCRYPTION_ON EXCEPT ![1] = 1]}
HeaderOffsets == {0, 5, 300}
HeaderCounts == {0, 3, 7, 9, 10, 300}
HeaderVersions == {512, 513, 767, 66048, 256, 768, 2, 0}

WholeHeaders ==
    {sig \o enc \o PackU32(off) \o PackU32(b) \o PackU32(a) \o PackU32(v) :
        sig \in HeaderSignatures, enc \in HeaderFlags, off \in HeaderOffsets,
        b \in {0, 3}, a \in HeaderCounts, v \in HeaderVersions}

HeaderCuts == {10, 20, 32, 40, 44}

GoodHeader == MASTER_OF_MAGIC \o ENCRYPTION_OFF \o PackU32(5) \o PackU32(0)
              \o PackU32(9) \o PackU32(512)

Headers == WholeHeaders \cup {SubSeq(GoodHeader, 1, n) : n \in HeaderCuts}
           \cup {GoodHeader \o <<1, 2, 3>>}

\* a stream handed to parse_header and not yet read; no archive built on it
InitHeader ==
    /\ stream \in Headers
    /\ obj = NoObject
    /\ entries = <<>>
    /\ data = <<>>
    /\ header = [file_count |-> 0, index_offset |-> 0]
    /\ data_pos = 0
    /\ indexed = <<>>
    /\ stream_closed = FALSE
    /\ stream_pos = 0
    /\ close_calls = 0
    /\ scope = "none"
    /\ iters = [i \in Iters |-> IdleIter]
    /\ result = NoResult
    /\ first_open = [n \in QueryNames |-> <<>>]
    /\ disk = {}

NextHeader == ParseHeader

SpecHeader == InitHeader /\ [][NextHeader]_vars

\* the two counts of the 46-byte header d, and its version
StoredA(d) == UnpackU32(SubSeq(d, 39, 42))
StoredB(d) == UnpackU32(SubSeq(d, 35, 38))
StoredVersion(d) == UnpackU32(SubSeq(d, 43, 46))

\* the errors the claim has a 46-byte header d fail with
HeaderFaults(d) ==
    (IF SubSeq(d, 1, 15) # MASTER_OF_MAGIC THEN {"missing signature"} ELSE {})
    \cup (IF SubSeq(d, 16, 30) \notin {ENCRYPTION_ON, ENCRYPTION_OFF}
          THEN {"invalid encryption flag"} ELSE {})
    \cup (IF StoredA(d) - StoredB(d) - 7 < 0 THEN {"invalid file count"} ELSE {})
    \cup (IF (StoredVersion(d) \div 256) % 256 # 2
          THEN {"unsupported version"} ELSE {})

\* C11: parse_header of a 46-byte header succeeds exactly when the signature
\* is 'Master of Magic', the encryption flag is one of the two patterns,
\* a - b - 7 >= 0 and version & 0xFF00 is 0x0200; otherwise it raises the
\* error of a condition that fails; on success index_offset is the stored
\* offset + 46, file_count is a - b - 7 and version is 0x0200.
C11_HeaderValidation ==
    (result.op = "parse_header" /\ Len(result.value) >= HEADER_LENGTH) =>
        /\ result.status = "ok" <=> HeaderFaults(result.value) = {}
        /\ result.status # "ok" =>
             /\ result.status = "GRFParseError"
             /\ result.header.message \in HeaderFaults(result.value)
        /\ result.status = "ok" =>
             /\ result.header.index_offset
                  = UnpackU32(SubSeq(result.value, 31, 34)) + 46
             /\ result.header.file_count
                  = StoredA(result.value) - StoredB(result.value) - 7
             /\ result.header.file_count >= 0
             /\ result.header.version = 512

\* a header was accepted whose version has bytes above the low 16 bits and
\* whose counts leave no file
C11_Witness ==
    /\ result.op = "parse_header"
    /\ result.status = "ok"
    /\ StoredVersion(result.value) = 66048
    /\ result.header.file_count = 0

(* ----------------- the file types' objects (shared frame) ------------- *)

\* the variables of the archive, which no file type's object touches
grf_vars == << entries, stream, header, data, data_pos, indexed, stream_closed,
              stream_pos, close_calls, scope, iters, first_open, disk >>

\* no archive is open: a file type's class is used on a buffer of its own
NoArchive ==
    /\ entries = <<>>
    /\ stream = <<>>
    /\ data = <<>>
    /\ header = [file_count |-> 0, index_offset |-> 0]
    /\ data_pos = 0
    /\ indexed = <<>>
    /\ stream_closed = FALSE
    /\ stream_pos = 0
    /\ close_calls = 0
    /\ scope = "none"
    /\ iters = [i \in Iters |-> IdleIter]
    /\ first_open = [n \in QueryNames |-> <<>>]
    /\ disk = {}

\* a buffer handed to a class, not yet read
Buffer(bytes) == [kind |-> "buffer", status |-> "new", data |-> bytes]

(* --------------------------- GAT (pygrf/gat.py) ----------------------- *)

\* A binary32 or binary64 value x is written as the integer 16 * x. The
\* heights of the model are multiples of 1/4 of size below 1024, for which
\* struct.unpack('<f'), the negation, the sum of four and the division by 4
\* are exact in binary64.
RECURSIVE Pow2(_)
Pow2(n) == IF n = 0 THEN 1 ELSE 2 * Pow2(n - 1)
RECURSIVE Log2(_)
Log2(a) == IF a < 2 THEN 0 ELSE 1 + Log2(a \div 2)
Abs(a) == IF a < 0 THEN -a ELSE a

\* struct.unpack('<f', b): sign bit, 8 bits of exponent, 23 bits of fraction
F32(b) ==
    LET sign == IF b[4] >= 128 THEN -1 ELSE 1
        e == (b[4] % 128) * 2 + b[3] \div 128
        m == (b[3] % 128) * 65536 + b[2] * 256 + b[1]
    IN IF e = 0 /\ m = 0 THEN 0
       ELSE sign * ((8388608 + m) \div Pow2(146 - e))

\* struct.pack('<f', x) of a value of the model, which lays the files out
PackF32(v) ==
    LET a == Abs(v)
        k == Log2(a)
        e == k + 123
        m == a * Pow2(23 - k) - 8388608
        s == IF v < 0 THEN 128 ELSE 0
    IN IF v = 0 THEN <<0, 0, 0, 0>>
       ELSE << m % 256, (m \div 256) % 256, (m \div 65536) + (e % 2) * 128,
               s + e \div 2 >>

\* parse_tile without the inversion of the heights
parse_tile_NoFlip(rec) ==
    LET h == [i \in 1..4 |-> F32(SubSeq(rec, 4 * i - 3, 4 * i))]
    IN [bottom_left |-> h[1], bottom_right |-> h[2], top_left |-> h[3],
        top_right |-> h[4], type |-> UnpackU32(SubSeq(rec, 17, 20)),
        altitude |-> (h[1] + h[2] + h[3] + h[4]) \div 4]

\* parse_tile: four floats and an unsigned int; the heights times -1, the
\* altitude their sum over their number
parse_tile(rec) ==
    LET h == [i \in 1..4 |-> F32(SubSeq(rec, 4 * i - 3, 4 * i)) * (-1)]
    IN [bottom_left |-> h[1], bottom_right |-> h[2], top_left |-> h[3],
        top_right |-> h[4], type |-> UnpackU32(SubSeq(rec, 17, 20)),
        altitude |-> (h[1] + h[2] + h[3] + h[4]) \div 4]

\* split_tiles: what follows the header, 20 bytes at a time until EOF
split_tiles(bytes) ==
    LET rest == Len(bytes) - GAT_HEADER_LENGTH
        chunks == (rest + TILE_LENGTH - 1) \div TILE_LENGTH
    IN [k \in 1..chunks |->
           Slice(bytes, GAT_HEADER_LENGTH + TILE_LENGTH * (k - 1),
                 GAT_HEADER_LENGTH + TILE_LENGTH * k)]

\* GAT(stream): the object GAT.__init__ leaves, or the error it raises
GAT_object(bytes) ==
    IF GAT_init(bytes) # "ok" THEN [kind |-> "GAT", status |-> GAT_init(bytes)]
    ELSE [kind |-> "GAT", status |-> "ok",
          width |-> UnpackU32(SubSeq(bytes, 7, 10)),
          height |-> UnpackU32(SubSeq(bytes, 11, 14)),
          tile_data |-> split_tiles(bytes),
          tiles |-> {}]

\* the tile self.tiles holds for (x, y)
cached(o, x, y) == {c \in o.tiles : c.at = <<x, y>>}

\* the place in tile_data that GAT.__getitem__ reads for (x, y), counted
\* from 0
tile_index(o, x, y) == y + x * o.width

\* GAT.__getitem__((x, y)): the bounds, then the cache, then tile_data
GAT_getitem(o, x, y) ==
    IF x >= o.width \/ y >= o.height \/ x < 0 \/ y < 0
    THEN [status |-> "IndexError", message |-> "none", tiles |-> o.tiles]
    ELSE IF cached(o, x, y) # {}
    THEN [status |-> "ok", message |-> "none", tiles |-> o.tiles,
          tile |-> (CHOOSE c \in cached(o, x, y) : TRUE).tile]
    ELSE IF tile_index(o, x, y) >= Len(o.tile_data)
    THEN [status |-> "IndexError", message |-> "list index out of range",
          tiles |-> o.tiles]
    ELSE [status |-> "ok", message |-> "none",
          tiles |-> o.tiles \cup {[at |-> <<x, y>>,
                                   tile |-> parse_tile(o.tile_data[tile_index(o, x, y) + 1])]},
          tile |-> parse_tile(o.tile_data[tile_index(o, x, y) + 1])]

\* GAT(stream) on a buffer
GatOpen ==
    /\ obj.kind = "buffer"
    /\ obj' = GAT_object(obj.data)
    /\ result' = [op |-> "GAT", name |-> <<>>, status |-> GAT_init(obj.data),
                  value |-> obj.data, parser |-> "GAT"]
    /\ UNCHANGED grf_vars

\* gat[x, y]
GatGet(x, y) ==
    /\ obj.kind = "GAT"
    /\ obj.status = "ok"
    /\ \E r \in {GAT_getitem(obj, x, y)} :
         /\ obj' = [obj EXCEPT !.tiles = r.tiles]
         /\ result' = [op |-> "gat_get", name |-> <<>>, status |-> r.status,
                       value |-> <<x, y>>, parser |-> "GAT", got |-> r]
    /\ UNCHANGED grf_vars

MaxWidth == 3
MaxHeight == 2

\* the stored heights of record k (counted from 0) of the model's files, and
\* its type
TileHeights(k) == << -16 * k, 16 * k + 4, 8 - 8 * k, 40 * k - 100 >>
TileType(k) == k + 1
TileRecord(k) ==
    PackF32(TileHeights(k)[1]) \o PackF32(TileHeights(k)[2])
    \o PackF32(TileHeights(k)[3]) \o PackF32(TileHeights(k)[4])
    \o PackU32(TileType(k))

RECURSIVE TileRecords(_)
TileRecords(n) == IF n = 0 THEN <<>> ELSE TileRecords(n - 1) \o TileRecord(n - 1)

GatFile(w, h, body) == GAT_SIGNATURE \o PackU32(w) \o PackU32(h) \o body

\* the bodies a w x h file comes with: the w * h records, one byte or one
\* record more or less, none at all
GatBodies(w, h) ==
    {TileRecords(w * h), TileRecords(w * h) \o <<7>>, TileRecords(w * h + 1), <<>>}
    \cup (IF w * h > 0
          THEN {SubSeq(TileRecords(w * h), 1, 20 * w * h - 1), TileRecords(w * h - 1)}
          ELSE {})

GatBuffers ==
    UNION {{GatFile(w, h, b) : b \in GatBodies(w, h)} :
                  w \in 0..MaxWidth, h \in 0..MaxHeight}
    \cup {SubSeq(GatFile(1, 1, <<>>), 1, 9),
          [GatFile(1, 1, TileRecords(1)) EXCEPT ![5] = 2]}

InitGat ==
    /\ NoArchive
    /\ result = NoResult
    /\ obj \in {Buffer(b) : b \in GatBuffers}

NextGat ==
    \/ GatOpen
    \/ \E x \in -1..MaxWidth, y \in -1..MaxHeight : GatGet(x, y)

SpecGat == InitGat /\ [][NextGat]_vars

\* (x, y) lies on the map of the GAT object
OnMap(x, y) == x >= 0 /\ y >= 0 /\ x < obj.width /\ y < obj.height

\* C12: gat[x, y] fails with IndexError exactly when x < 0, y < 0,
\* x >= width or y >= height; for every other coordinate it returns the tile
\* decoded from record y + x * width of the tile array.
C12_GetFailsExactlyOffMap ==
    result.op = "gat_get" =>
        /\ result.status = "IndexError" <=> ~OnMap(result.value[1], result.value[2])
        /\ OnMap(result.value[1], result.value[2]) =>
             /\ result.status = "ok"
             /\ result.got.tile
                  = parse_tile(obj.tile_data[result.value[2]
                                             + result.value[1] * obj.width + 1])

\* the width and height a GAT buffer of 14 bytes or more stores
StoredWidth(b) == UnpackU32(SubSeq(b, 7, 10))
StoredHeight(b) == UnpackU32(SubSeq(b, 11, 14))

\* C13: GAT(buffer) on a buffer with the signature and a whole header
\* succeeds exactly when the bytes behind the 14-byte header number
\* width * height * 20, and fails with InvalidGATError otherwise, whatever
\* width and height are, width * height = 0 with no body included.
C13_ConstructionChecksBodyLength ==
    (/\ result.op = "GAT"
     /\ Len(result.value) >= GAT_HEADER_LENGTH
     /\ SubSeq(result.value, 1, 6) = GAT_SIGNATURE) =>
        /\ result.status = "ok"
             <=> Len(result.value) - GAT_HEADER_LENGTH
                   = StoredWidth(result.value) * StoredHeight(result.value)
                     * TILE_LENGTH
        /\ result.status # "ok" => result.status = "InvalidGATError"

\* the record the tile of the last gat[x, y] was decoded from
RecordOf(r) == r.value[2] + r.value[1] * obj.width

\* C14: the four heights of a decoded tile are the stored values negated, in
\* the order bottom_left, bottom_right, top_left, top_right; four times the
\* altitude is the sum of the four heights; the type is the stored value.
C14_TileHeightsNegatedAltitudeMean ==
    (result.op = "gat_get" /\ result.status = "ok") =>
        /\ << result.got.tile.bottom_left, result.got.tile.bottom_right,
              result.got.tile.top_left, result.got.tile.top_right >>
             = [i \in 1..4 |-> -TileHeights(RecordOf(result))[i]]
        /\ 4 * result.got.tile.altitude
             = result.got.tile.bottom_left + result.got.tile.bottom_right
               + result.got.tile.top_left + result.got.tile.top_right
        /\ result.got.tile.type = TileType(RecordOf(result))

\* a tile was decoded whose stored heights are of both signs, none of them 0
C14_Witness ==
    /\ result.op = "gat_get"
    /\ result.status = "ok"
    /\ RecordOf(result) = 3
    /\ result.got.tile.bottom_left = 48
    /\ result.got.tile.top_right = -20
    /\ result.got.tile.altitude = -2

(* --------------------------- SPR (pygrf/spr.py) ----------------------- *)

\* struct.unpack_from('<H', bytes, off), and whether unpack_from finds n bytes
\* at off
U16At(bytes, off) == bytes[off + 1] + 256 * bytes[off + 2]
Fits(bytes, off, n) == off + n <= Len(bytes)

SPR_HEADER_SIZE == 4

\* count_struct.size and pal_struct.size of the parser of version v
count_size(v) == IF v >= 512 THEN 4 ELSE 2
pal_struct_size(v) == IF v = 513 THEN 6 ELSE 4
RGB_STRUCT_SIZE == 4

\* parse_count: (pal, rgb)
pal_count(v, bytes) == U16At(bytes, SPR_HEADER_SIZE)
rgb_count(v, bytes) == IF v >= 512 THEN U16At(bytes, SPR_HEADER_SIZE + 2) ELSE 0

\* an offset no walk reaches: a size function raised struct.error
NO_OFFSET == -1

\* pal_size at off: 4 + w * h, or 6 + size in version 0x201
pal_size(v, bytes, off) ==
    IF ~Fits(bytes, off, pal_struct_size(v)) THEN NO_OFFSET
    ELSE IF v = 513 THEN 6 + U16At(bytes, off + 4)
    ELSE U16At(bytes, off) * U16At(bytes, off + 2) + 4

\* rgb_size at off: 4 + 4 * w * h
rgb_size(v, bytes, off) ==
    IF ~Fits(bytes, off, RGB_STRUCT_SIZE) THEN NO_OFFSET
    ELSE U16At(bytes, off) * U16At(bytes, off + 2) * 4 + 4

\* the walk of pal_offset and of rgb_offset from off over n images
RECURSIVE walk_pal(_, _, _, _)
walk_pal(v, bytes, off, n) ==
    IF n = 0 \/ off = NO_OFFSET THEN off
    ELSE IF pal_size(v, bytes, off) = NO_OFFSET THEN NO_OFFSET
    ELSE walk_pal(v, bytes, off + pal_size(v, bytes, off), n - 1)

RECURSIVE walk_rgb(_, _, _, _)
walk_rgb(v, bytes, off, n) ==
    IF n = 0 \/ off = NO_OFFSET THEN off
    ELSE IF rgb_size(v, bytes, off) = NO_OFFSET THEN NO_OFFSET
    ELSE walk_rgb(v, bytes, off + rgb_size(v, bytes, off), n - 1)

pal_offset(v, bytes, index) ==
    walk_pal(v, bytes, SPR_HEADER_SIZE + count_size(v), index)

rgb_offset(v, bytes, index) ==
    walk_rgb(v, bytes, pal_offset(v, bytes, pal_count(v, bytes)), index)

\* self.data[-1024:]
palette_bytes(bytes) ==
    Slice(bytes, IF Len(bytes) > 1024 THEN Len(bytes) - 1024 ELSE 0, Len(bytes))

\* Spr101.parse_palette on the tail: one Color(r, g, b, 255) for each group
\* of four bytes, then the first with a = 0; colours are counted from 1 here
colors_of(tail) ==
    [k \in 1..(Len(tail) \div 4) |->
        << tail[4 * k - 3], tail[4 * k - 2], tail[4 * k - 1],
           IF k = 1 THEN 0 ELSE 255 >>]

\* parse_palette with the palette of Spr101 in every version
parse_palette_Embedded(v, bytes) ==
    IF Len(palette_bytes(bytes)) % 4 # 0
    THEN [status |-> "struct.error", colors |-> <<>>]
    ELSE [status |-> "ok", colors |-> colors_of(palette_bytes(bytes))]

\* parse_palette of version v: none in 0x100; struct.error from iter_unpack
\* for a tail that is no multiple of 4 bytes long
parse_palette(v, bytes) ==
    IF v = 256 THEN [status |-> "None", colors |-> <<>>]
    ELSE IF Len(palette_bytes(bytes)) % 4 # 0
    THEN [status |-> "struct.error", colors |-> <<>>]
    ELSE [status |-> "ok", colors |-> colors_of(palette_bytes(bytes))]

\* _unpack_rle: the loop from position index (counted from 0) with out
\* collected so far; the call starts it at 0 with nothing
RECURSIVE _unpack_rle(_, _, _)
_unpack_rle(bytes, index, out) ==
    IF index >= Len(bytes) THEN [status |-> "ok", out |-> out]
    ELSE IF bytes[index + 1] = 0
    THEN IF index + 1 >= Len(bytes) THEN [status |-> "IndexError", out |-> out]
         ELSE _unpack_rle(bytes, index + 2, out \o Zeros(bytes[index + 2]))
    ELSE _unpack_rle(bytes, index + 1, Append(out, bytes[index + 1]))

\* an image, or the exception that left get_image
image_error(st) == [status |-> st, width |-> 0, height |-> 0, pixels |-> <<>>]

\* [palette[i] for i in indices] as an Image of w x h
paint(w, h, colors, indices) ==
    IF \E j \in 1..Len(indices) : indices[j] >= Len(colors)
    THEN image_error("IndexError")
    ELSE [status |-> "ok", width |-> w, height |-> h,
          pixels |-> [j \in 1..Len(indices) |-> colors[indices[j] + 1]]]

\* Spr100.parse_pal: w * h bytes behind the two sizes, as many as there are
parse_pal_100(bytes, off, colors) ==
    paint(U16At(bytes, off), U16At(bytes, off + 2), colors,
          Slice(bytes, off + 4, off + 4 + U16At(bytes, off) * U16At(bytes, off + 2)))

\* Spr201.parse_pal: size bytes behind the three fields, run-length decoded
parse_pal_201(bytes, off, colors) ==
    LET payload == Slice(bytes, off + 6, off + 6 + U16At(bytes, off + 4))
    IN IF _unpack_rle(payload, 0, <<>>).status # "ok" THEN image_error("IndexError")
       ELSE paint(U16At(bytes, off), U16At(bytes, off + 2), colors,
                  _unpack_rle(payload, 0, <<>>).out)

\* parse_pal of version v at off
parse_pal(v, bytes, off) ==
    IF off = NO_OFFSET \/ ~Fits(bytes, off, pal_struct_size(v))
    THEN image_error("struct.error")
    ELSE IF parse_palette(v, bytes).status # "ok"
    THEN image_error(parse_palette(v, bytes).status)
    ELSE IF v = 513 THEN parse_pal_201(bytes, off, parse_palette(v, bytes).colors)
    ELSE parse_pal_100(bytes, off, parse_palette(v, bytes).colors)

\* Color.from_rgba32 of the little-endian u32 at position 4 * (j - 1) of raw:
\* red is the top byte, alpha the lowest
rgba_pixel(raw, j) == << raw[4 * j], raw[4 * j - 1], raw[4 * j - 2], raw[4 * j - 3] >>

\* the rows of width w of the pixels, last row first; rows beyond the pixels
\* there are come out short or empty
flip_rows(pixels, w, h) ==
    LET row(r) == Slice(pixels, r * w, r * w + w)
        Rev(r) == h - r
    IN Concat([r \in 1..h |-> row(Rev(r))])

\* Spr200.parse_rgb at off
parse_rgb(v, bytes, off) ==
    IF v < 512 THEN image_error("FileParseError")
    ELSE IF off = NO_OFFSET \/ ~Fits(bytes, off, RGB_STRUCT_SIZE)
    THEN image_error("struct.error")
    ELSE LET w == U16At(bytes, off)
             h == U16At(bytes, off + 2)
             raw == Slice(bytes, off + 4, off + 4 + w * h * 4)
         IN IF Len(raw) % 4 # 0 THEN image_error("struct.error")
            ELSE [status |-> "ok", width |-> w, height |-> h,
                  pixels |-> flip_rows([j \in 1..(Len(raw) \div 4) |->
                                           rgba_pixel(raw, j)], w, h)]

\* get_image(index): no palette, then parse_pal or parse_rgb
get_image(v, bytes, index) ==
    IF index < pal_count(v, bytes) /\ parse_palette(v, bytes).status = "None"
    THEN image_error("FileParseError")
    ELSE IF index < pal_count(v, bytes) /\ parse_palette(v, bytes).status # "ok"
    THEN image_error(parse_palette(v, bytes).status)
    ELSE IF index < pal_count(v, bytes)
    THEN parse_pal(v, bytes, pal_offset(v, bytes, index))
    ELSE IF v < 512 THEN image_error("FileParseError")
    ELSE parse_rgb(v, bytes, rgb_offset(v, bytes, index - pal_count(v, bytes)))

\* SPR(data): the object SPR.__init__ leaves, or the error it raises
SPR_object(bytes) ==
    IF SPR_init(bytes) # "ok" THEN [kind |-> "SPR", status |-> SPR_init(bytes)]
    ELSE [kind |-> "SPR", status |-> "ok", version |-> U16At(bytes, 2),
          data |-> bytes]

\* len(spr)
SPR_len(o) ==
    IF ~Fits(o.data, SPR_HEADER_SIZE, count_size(o.version)) THEN [status |-> "struct.error", length |-> 0]
    ELSE [status |-> "ok",
          length |-> pal_count(o.version, o.data) + rgb_count(o.version, o.data)]

\* an index of spr[...]: an int, or a value of another type
IntIndex(i) == [type |-> "int", i |-> i]
OtherIndexes == {[type |-> "float", i |-> 0], [type |-> "str", i |-> 0]}

\* no image was selected: get_image was not called
NOT_SELECTED == -1
not_selected(st) == [selected |-> NOT_SELECTED, image |-> image_error(st)]

\* SPR.__getitem__ without the branch for a negative index
SPR_getitem_NoNegative(o, index) ==
    IF index.type # "int" THEN not_selected("IndexError")
    ELSE IF SPR_len(o).status # "ok" THEN not_selected(SPR_len(o).status)
    ELSE IF index.i < 0 \/ index.i >= SPR_len(o).length
    THEN not_selected("IndexError")
    ELSE [selected |-> index.i, image |-> get_image(o.version, o.data, index.i)]

\* SPR.__getitem__(index)
SPR_getitem(o, index) ==
    IF index.type # "int" THEN not_selected("IndexError")
    ELSE IF SPR_len(o).status # "ok" THEN not_selected(SPR_len(o).status)
    ELSE LET i == IF index.i < 0 THEN SPR_len(o).length + index.i ELSE index.i
         IN IF i < 0 \/ i >= SPR_len(o).length THEN not_selected("IndexError")
            ELSE [selected |-> i, image |-> get_image(o.version, o.data, i)]

\* SPR(data) on a buffer
SprOpen ==
    /\ obj.kind = "buffer"
    /\ obj' = SPR_object(obj.data)
    /\ result' = [op |-> "SPR", name |-> <<>>, status |-> SPR_init(obj.data),
                  value |-> obj.data, parser |-> "SPR"]
    /\ UNCHANGED grf_vars

\* len(spr) and spr.version
SprLen ==
    /\ obj.kind = "SPR"
    /\ obj.status = "ok"
    /\ result' = [op |-> "spr_len", name |-> <<>>, status |-> SPR_len(obj).status,
                  value |-> SPR_len(obj).length, parser |-> "SPR",
                  version |-> obj.version]
    /\ UNCHANGED << obj, grf_vars >>

\* spr[index]
SprGet(index) ==
    /\ obj.kind = "SPR"
    /\ obj.status = "ok"
    /\ \E r \in {SPR_getitem(obj, index)} :
         result' = [op |-> "spr_get", name |-> <<>>, status |-> r.image.status,
                    value |-> index, parser |-> "SPR", selected |-> r.selected,
                    image |-> r.image,
                    palette |-> parse_palette(obj.version, obj.data)]
    /\ UNCHANGED << obj, grf_vars >>

MaxIndex == 4

\* struct.pack('<H', v)
PackU16(v) == << v % 256, v \div 256 >>

\* the files of the model: two indexed images of 2 x 2 and 3 x 1, plain and
\* run-length encoded, a direct-colour image of 1 x 2, a palette of 1024 bytes
PaletteTail == [j \in 1..1024 |-> (j * 7) % 256]
PalImage(w, h, px) == PackU16(w) \o PackU16(h) \o px
RleImage(w, h, px) == PackU16(w) \o PackU16(h) \o PackU16(Len(px)) \o px
RgbImage(w, h, raw) == PackU16(w) \o PackU16(h) \o raw
IndexedA == PalImage(2, 2, <<1, 0, 255, 3>>)
IndexedB == PalImage(3, 1, <<0, 0, 5>>)
DirectC == RgbImage(1, 2, <<1, 2, 3, 4, 5, 6, 7, 8>>)
SprFile(v, counts, images, tail) == SIG_SP \o PackU16(v) \o counts \o images \o tail

SprFiles ==
    { SprFile(256, PackU16(2), IndexedA \o IndexedB, <<>>),
      SprFile(257, PackU16(2), IndexedA \o IndexedB, PaletteTail),
      SprFile(512, PackU16(1) \o PackU16(1), IndexedA \o DirectC, PaletteTail),
      SprFile(513, PackU16(2) \o PackU16(1),
              RleImage(2, 2, <<1, 0, 1, 255, 3>>) \o RleImage(3, 1, <<0, 2, 5>>)
              \o DirectC, PaletteTail),
      \* payloads that expand to 10 and to 1 byte for 3 x 1, and one that ends
      \* on a zero byte
      SprFile(513, PackU16(1) \o PackU16(0), RleImage(3, 1, <<0, 9, 5>>), PaletteTail),
      SprFile(513, PackU16(1) \o PackU16(0), RleImage(3, 1, <<5>>), PaletteTail),
      SprFile(513, PackU16(1) \o PackU16(0), RleImage(3, 1, <<5, 5, 0>>), PaletteTail),
      \* files of 16 and of 14 bytes, none of them a palette
      SprFile(257, PackU16(1), IndexedA, <<9, 9>>),
      SprFile(257, PackU16(1), IndexedA, <<>>),
      \* no image; no count
      SprFile(257, PackU16(0), <<>>, PaletteTail),
      SprFile(512, <<>>, <<>>, <<>>) }

SprIndexes == {IntIndex(i) : i \in -MaxIndex..MaxIndex} \cup OtherIndexes

InitSpr ==
    /\ NoArchive
    /\ result = NoResult
    /\ obj \in {Buffer(b) : b \in SprFiles}

NextSpr ==
    \/ SprOpen
    \/ SprLen
    \/ \E index \in SprIndexes : SprGet(index)

SpecSpr == InitSpr /\ [][NextSpr]_vars

\* pal_count + rgb_count as the file of the SPR object stores them
StoredLen ==
    U16At(obj.data, 4) + (IF obj.version >= 512 THEN U16At(obj.data, 6) ELSE 0)

\* the last spr[...] had len readable: the file holds its counts
LenReadable ==
    /\ result.op = "spr_get"
    /\ Len(obj.data) >= (IF obj.version >= 512 THEN 8 ELSE 6)

\* C15: with len = pal_count + rgb_count, spr[i] selects an image exactly when
\* i is an integer with -len <= i < len; a negative -k selects image len - k;
\* every other integer and every non-integer index fails with IndexError and
\* nothing is decoded.
C15_IndexSelectsImage ==
    LenReadable =>
        /\ result.selected # NOT_SELECTED
             <=> /\ result.value.type = "int"
                 /\ -StoredLen <= result.value.i
                 /\ result.value.i < StoredLen
        /\ result.selected # NOT_SELECTED =>
             result.selected = IF result.value.i < 0
                               THEN StoredLen + result.value.i
                               ELSE result.value.i
        /\ result.selected = NOT_SELECTED =>
             /\ result.status = "IndexError"
             /\ result.image.pixels = <<>>

\* image len - 1 was selected by -1 in a file of three images
C15_Witness ==
    /\ LenReadable
    /\ StoredLen = 3
    /\ result.value = IntIndex(-1)
    /\ result.selected = 2
    /\ result.status = "ok"

\* C16: in a file of version 0x100 every spr[i] with i in range fails with
\* FileParseError, the error of a missing palette; len and version are read
\* without an error.
C16_Version100HasNoPalette ==
    (obj.kind = "SPR" /\ obj.status = "ok" /\ obj.version = 256) =>
        /\ (result.op = "spr_get" /\ result.selected # NOT_SELECTED)
             => result.status = "FileParseError"
        /\ result.op = "spr_len"
             => /\ result.status = "ok"
                /\ result.value = U16At(obj.data, 4)
                /\ result.version = 256

\* the second image of a 0x100 file was asked for
C16_Witness ==
    /\ obj.kind = "SPR"
    /\ obj.version = 256
    /\ result.op = "spr_get"
    /\ result.selected = 1
    /\ result.status = "FileParseError"

\* the last 1024 bytes of the file of the SPR object
LastKilobyte == SubSeq(obj.data, Len(obj.data) - 1023, Len(obj.data))

\* C17: in a file of version 0x101 or later the palette an indexed image is
\* decoded with has 256 entries, entry k made of bytes 4k, 4k + 1, 4k + 2 of
\* the last 1024 bytes of the file, entry 0 with alpha 0 and the others with
\* alpha 255, so that every index 0..255 of an image has a colour.
C17_PaletteHas256Entries ==
    (/\ result.op = "spr_get"
     /\ obj.version >= 257
     /\ result.selected # NOT_SELECTED
     /\ result.selected < U16At(obj.data, 4)) =>
        /\ result.palette.status = "ok"
        /\ Len(result.palette.colors) = 256
        /\ \A k \in 0..255 :
             result.palette.colors[k + 1]
               = << LastKilobyte[4 * k + 1], LastKilobyte[4 * k + 2],
                    LastKilobyte[4 * k + 3], IF k = 0 THEN 0 ELSE 255 >>

\* C18: an indexed image of a 0x201 file that spr[i] returns has exactly
\* width * height pixels: a payload that expands to another length, or ends
\* on a zero byte without a count, is not returned as an image.
C18_RleYieldsWidthTimesHeight ==
    (/\ result.op = "spr_get"
     /\ obj.version = 513
     /\ result.selected # NOT_SELECTED
     /\ result.selected < U16At(obj.data, 4)
     /\ result.status = "ok") =>
        Len(result.image.pixels) = result.image.width * result.image.height

(* ----------------------- the ACT object (pygrf/act.py) ---------------- *)

\* Animation.interval's default, 4.0, as 16 * value
DEFAULT_INTERVAL == 64

\* where the k-th animation (counted from 1) starts
animation_at(bytes, version, k) == parse_animations(bytes, 16, version, k - 1)

\* the Layer parse_layer builds from the 16 bytes at off: x, y, index and
\* flags, flipped where the flags are not 0; the flags themselves are no
\* field of a Layer and are kept here for the record
layer_at(bytes, off) ==
    [x |-> UnpackI32(SubSeq(bytes, off + 1, off + 4)),
     y |-> UnpackI32(SubSeq(bytes, off + 5, off + 8)),
     index |-> UnpackU32(SubSeq(bytes, off + 9, off + 12)),
     flags |-> UnpackU32(SubSeq(bytes, off + 13, off + 16)),
     flipped |-> UnpackU32(SubSeq(bytes, off + 13, off + 16)) # 0]

\* the n layers of a frame, the first at off
RECURSIVE layers_from(_, _, _, _)
layers_from(bytes, off, version, n) ==
    IF n <= 0 THEN <<>>
    ELSE <<layer_at(bytes, off)>>
         \o layers_from(bytes, parse_layer(bytes, off, version), version, n - 1)

\* the n frames of an animation, the first at off: the layers of each behind
\* its 32 unused bytes and its layer count
RECURSIVE frames_from(_, _, _, _)
frames_from(bytes, off, version, n) ==
    IF n <= 0 THEN <<>>
    ELSE <<[layers |-> layers_from(bytes, off + 36, version,
                                   UnpackI32(SubSeq(bytes, off + 33, off + 36)))]>>
         \o frames_from(bytes, parse_frame(bytes, off, version), version, n - 1)

\* self.animations as ACT.__init__ has it before parse_intervals
parsed_animations(bytes, version, count) ==
    [k \in 1..count |->
        [frames |-> frames_from(bytes, animation_at(bytes, version, k) + 4, version,
                       UnpackI32(SubSeq(bytes, animation_at(bytes, version, k) + 1,
                                        animation_at(bytes, version, k) + 4))),
         interval |-> DEFAULT_INTERVAL]]

\* bytes.strip(b'\x00'): the zero bytes at both ends go, those between stay
strip_nulls(s) ==
    LET kept == {i \in 1..Len(s) : s[i] # 0}
    IN IF kept = {} THEN <<>>
       ELSE SubSeq(s, CHOOSE i \in kept : \A j \in kept : i <= j,
                   CHOOSE i \in kept : \A j \in kept : i >= j)

\* self.triggers: the count at off, then one read of 40 bytes for each, what
\* is left of the data where it ends before
triggers_at(bytes, off) ==
    [k \in 1..UnpackI32(SubSeq(bytes, off + 1, off + 4)) |->
        strip_nulls(Slice(bytes, off + 4 + 40 * (k - 1), off + 4 + 40 * k))]

\* the cursor behind the triggers, where parse_intervals starts to read
intervals_at(bytes) ==
    parse_triggers(bytes, parse_animations(bytes, 16, UnpackU16(SubSeq(bytes, 3, 4)),
                                           UnpackU16(SubSeq(bytes, 5, 6))))

\* struct.iter_unpack('<f', stream.read()) from the cursor off
unpack_floats(bytes, off) ==
    [k \in 1..((Len(bytes) - off) \div 4) |->
        F32(SubSeq(bytes, off + 4 * k - 3, off + 4 * k))]

\* parse_intervals: zip pairs the animations with the floats and stops with
\* the shorter of the two
parse_intervals(animations, floats) ==
    [k \in 1..Min(Len(animations), Len(floats)) |->
        [animations[k] EXCEPT !.interval = floats[k]]]

\* ACT(stream): the object ACT.__init__ leaves, or the error it raises
ACT_object(bytes) ==
    IF ~StartsWith(bytes, SIG_AC) THEN [kind |-> "ACT", status |-> "FileParseError"]
    ELSE IF ACT_init(bytes) # "ok" THEN [kind |-> "ACT", status |-> ACT_init(bytes)]
    ELSE [kind |-> "ACT", status |-> "ok",
          version |-> UnpackU16(SubSeq(bytes, 3, 4)),
          tail_at |-> intervals_at(bytes),
          triggers |->
              triggers_at(bytes,
                          parse_animations(bytes, 16, UnpackU16(SubSeq(bytes, 3, 4)),
                                           UnpackU16(SubSeq(bytes, 5, 6)))),
          animations |->
              parse_intervals(
                  parsed_animations(bytes, UnpackU16(SubSeq(bytes, 3, 4)),
                                    UnpackU16(SubSeq(bytes, 5, 6))),
                  unpack_floats(bytes, intervals_at(bytes)))]

\* ACT(stream) on a buffer
ActOpen ==
    /\ obj.kind = "buffer"
    /\ \E o \in {ACT_object(obj.data)} :
         /\ obj' = o
         /\ result' = [op |-> "ACT", name |-> <<>>, status |-> o.status,
                       value |-> obj.data, parser |-> "ACT"]
    /\ UNCHANGED grf_vars

MaxAnimations == 2
MaxFloats == 3

\* the layout of the files of the model: a layer and a frame of version v,
\* all fields 0 but the counts
ActLayer(v) ==
    Zeros(16 + (IF v >= 512 THEN 4 ELSE 0)
          + (IF v >= 516 THEN 8 ELSE IF v >= 512 THEN 4 ELSE 0)
          + (IF v >= 512 THEN 4 ELSE 0)
          + (IF v >= 517 THEN 12 ELSE IF v >= 512 THEN 4 ELSE 0))
ActFrame(v) ==
    Zeros(32) \o PackU32(1) \o ActLayer(v)
    \o (IF v >= 512 THEN <<255, 255, 255, 255>> ELSE <<>>)
    \o (IF v >= 515 THEN PackU32(0) ELSE <<>>)

\* the k-th animation of a file: k - 1 frames
RECURSIVE ActFrames(_, _)
ActFrames(v, n) == IF n = 0 THEN <<>> ELSE ActFrame(v) \o ActFrames(v, n - 1)
ActAnimation(v, k) == PackU32(k - 1) \o ActFrames(v, k - 1)

\* the k-th float of the tail of a file: 1.5, 2.5, 3.5, ...
TailFloat(k) == 16 * k + 8

ActFile(sig, v, count, floats, junk) ==
    sig \o PackU16(v) \o PackU16(count) \o Zeros(10)
    \o Concat([k \in 1..count |-> ActAnimation(v, k)])
    \o PackU32(0)
    \o Concat([k \in 1..floats |-> PackF32(TailFloat(k))])
    \o junk

ActVersions == {0, 256, 511, 512, 513, 514, 515, 516, 517, 518, 65535}

\* files made by hand: a header, then what the walk is to meet
ActHeader(v, count) == SIG_AC \o PackU16(v) \o PackU16(count) \o Zeros(10)
MinusOne == <<255, 255, 255, 255>>

\* one animation of one frame of one layer with the flags fl, no trigger, one
\* interval
FlagFile(v, fl) ==
    ActHeader(v, 1) \o PackU32(1) \o Zeros(32) \o PackU32(1)
    \o [ActLayer(v) EXCEPT ![13] = fl % 256, ![14] = fl \div 256]
    \o (IF v >= 512 THEN MinusOne ELSE <<>>)
    \o (IF v >= 515 THEN PackU32(0) ELSE <<>>)
    \o PackU32(0) \o PackF32(TailFloat(1))

\* a trigger record: the string s in a buffer of 40 bytes
TriggerRecord(s) == s \o Zeros(40 - Len(s))

\* no animation, then a trigger table: three strings, one of them with a
\* null inside and one behind a null; a string that fills its record; a
\* second record cut short; a count without records; a negative count
TriggerFiles ==
    { ActHeader(512, 0) \o PackU32(3) \o TriggerRecord(<<97, 116, 107>>)
        \o TriggerRecord(<<97, 98, 0, 99, 100>>) \o TriggerRecord(<<0, 120, 121>>),
      ActHeader(512, 0) \o PackU32(1) \o [i \in 1..40 |-> 97],
      ActHeader(512, 0) \o PackU32(2) \o TriggerRecord(<<97, 116, 107>>)
        \o <<97, 98, 0, 0>>,
      ActHeader(512, 0) \o PackU32(2),
      ActHeader(512, 0) \o MinusOne }

\* a 0x200 file that ends behind its one animation; negative frame, layer
\* and anchor counts; anchors and a frame cut short
BrokenFiles ==
    { ActHeader(512, 1) \o PackU32(0),
      ActHeader(512, 1) \o MinusOne \o PackU32(0) \o PackF32(TailFloat(1)),
      ActHeader(512, 1) \o PackU32(1) \o Zeros(32) \o MinusOne \o MinusOne
        \o PackU32(0) \o PackF32(TailFloat(1)),
      ActHeader(515, 1) \o PackU32(1) \o Zeros(32) \o PackU32(0) \o MinusOne
        \o MinusOne \o PackU32(0),
      ActHeader(515, 1) \o PackU32(1) \o Zeros(32) \o PackU32(0) \o MinusOne
        \o PackU32(2) \o Zeros(4),
      ActHeader(512, 1) \o PackU32(1) \o Zeros(20) }

ActFiles ==
    {ActFile(SIG_AC, v, count, floats, <<>>) :
        v \in ActVersions, count \in 0..MaxAnimations, floats \in 0..MaxFloats}
    \cup {ActFile(<<65, 88>>, 512, 1, 1, <<>>), ActFile(SIG_AC, 512, 1, 1, <<7>>),
          SIG_AC, SubSeq(ActFile(SIG_AC, 517, 2, 0, <<>>), 1, 40)}
    \cup {FlagFile(v, fl) : v \in {256, 512, 517}, fl \in {0, 1, 2, 3, 256}}
    \cup TriggerFiles \cup BrokenFiles

InitAct ==
    /\ NoArchive
    /\ result = NoResult
    /\ obj \in {Buffer(b) : b \in ActFiles}

NextAct == ActOpen

SpecAct == InitAct /\ [][NextAct]_vars

\* the version and the animation count an ACT buffer of 6 bytes or more stores
StoredActVersion(b) == UnpackU16(SubSeq(b, 3, 4))
StoredAnimationCount(b) == UnpackU16(SubSeq(b, 5, 6))

\* C19: ACT(buffer) succeeds only on a buffer that starts with 'AC' and holds
\* a version from 0x200 to 0x205; with any other version it fails with
\* FileParseError('unsupported version').
C19_OnlySupportedVersionsParse ==
    (result.op = "ACT" /\ Len(result.value) >= 6) =>
        /\ result.status = "ok" =>
             /\ StartsWith(result.value, SIG_AC)
             /\ StoredActVersion(result.value) \in 512..517
        /\ (/\ StartsWith(result.value, SIG_AC)
            /\ StoredActVersion(result.value) \notin 512..517)
             => result.status = "FileParseError"

\* the floats of the tail of the parsed file
TailFloats == unpack_floats(result.value, obj.tail_at)

\* C20: a parsed ACT file has animation_count animations; animation i has the
\* i-th float of the tail for its interval when the tail holds more than i
\* floats and the default 4.0 otherwise; floats beyond animation_count are
\* ignored.
C20_IntervalsFromTail ==
    (result.op = "ACT" /\ result.status = "ok") =>
        /\ Len(obj.animations) = StoredAnimationCount(result.value)
        /\ \A i \in 1..Len(obj.animations) :
             obj.animations[i].interval
               = IF i <= Len(TailFloats) THEN TailFloats[i] ELSE DEFAULT_INTERVAL

\* where the animations of the ACT buffer b end, as the walk finds it
AnimationsEnd(b) ==
    parse_animations(b, 16, StoredActVersion(b), StoredAnimationCount(b))

\* every animation of the parsed file has the default interval
AllDefaultIntervals ==
    \A i \in 1..Len(obj.animations) : obj.animations[i].interval = DEFAULT_INTERVAL

\* C21: the trigger table is read only from version 0x201 and the intervals
\* only from version 0x202: a 0x200 file that ends right behind its
\* animations parses, with no trigger and every interval 4.0, and a parsed
\* 0x201 file has every interval 4.0 whatever follows its trigger table.
C21_TrailersReadFromTheirVersion ==
    (result.op = "ACT" /\ StartsWith(result.value, SIG_AC)
       /\ Len(result.value) >= 16) =>
        /\ (/\ StoredActVersion(result.value) = 512
            /\ AnimationsEnd(result.value) = Len(result.value))
             => /\ result.status = "ok"
                /\ obj.triggers = <<>>
                /\ Len(obj.animations) = StoredAnimationCount(result.value)
                /\ AllDefaultIntervals
        /\ (StoredActVersion(result.value) = 513 /\ result.status = "ok")
             => AllDefaultIntervals

\* the layers of the parsed file
AllLayers ==
    UNION {UNION {{obj.animations[a].frames[f].layers[l] :
                      l \in 1..Len(obj.animations[a].frames[f].layers)} :
                  f \in 1..Len(obj.animations[a].frames)} :
           a \in 1..Len(obj.animations)}

\* C22: a layer is flipped exactly when bit 0 of its flags is set; the other
\* bits of the flags do not matter.
C22_FlippedIsBitZero ==
    (result.op = "ACT" /\ result.status = "ok") =>
        \A layer \in AllLayers : layer.flipped <=> (layer.flags % 2 = 1)

\* the i32 at the cursor off of the ACT buffer b
CountAt(b, off) == UnpackI32(SubSeq(b, off + 1, off + 4))

\* C23: a file parses only when it is well formed: no frame count and no
\* trigger count of a parsed file is negative, and every 40-byte trigger
\* record lies inside the buffer.
C23_OnlyWellFormedParses ==
    (result.op = "ACT" /\ result.status = "ok") =>
        /\ \A k \in 1..StoredAnimationCount(result.value) :
             CountAt(result.value,
                     animation_at(result.value, StoredActVersion(result.value), k)) >= 0
        /\ CountAt(result.value, AnimationsEnd(result.value)) >= 0
        /\ AnimationsEnd(result.value) + 4
             + 40 * CountAt(result.value, AnimationsEnd(result.value))
             <= Len(result.value)

\* the bytes of s before its first null
UpToNull(s) ==
    IF \A i \in 1..Len(s) : s[i] # 0 THEN s
    ELSE SubSeq(s, 1, (CHOOSE i \in 1..Len(s) :
                          s[i] = 0 /\ \A j \in 1..(i - 1) : s[j] # 0) - 1)

\* C27: the trigger table of a parsed file has trigger_count entries in file
\* order, the k-th the bytes of the k-th 40-byte record before its first
\* null.
C27_TriggerIsRecordUpToNull ==
    (result.op = "ACT" /\ result.status = "ok"
       /\ CountAt(result.value, AnimationsEnd(result.value)) >= 0) =>
        /\ Len(obj.triggers) = CountAt(result.value, AnimationsEnd(result.value))
        /\ \A k \in 1..Len(obj.triggers) :
             obj.triggers[k]
               = UpToNull(Slice(result.value,
                                AnimationsEnd(result.value) + 4 + 40 * (k - 1),
                                AnimationsEnd(result.value) + 4 + 40 * k))

\* the coordinates on the map of the GAT object
MapCoordinates == (0..(obj.width - 1)) \X (0..(obj.height - 1))

\* C25: on a constructed GAT of any width and height, the record index
\* y + x * width of every coordinate on the map lies inside the tile array,
\* and two different coordinates on the map never read the same record.
C25_TileIndexInsideAndInjective ==
    (obj.kind = "GAT" /\ obj.status = "ok") =>
        /\ \A c \in MapCoordinates :
             /\ tile_index(obj, c[1], c[2]) >= 0
             /\ tile_index(obj, c[1], c[2]) < Len(obj.tile_data)
        /\ \A c, d \in MapCoordinates :
             c # d => tile_index(obj, c[1], c[2]) # tile_index(obj, d[1], d[2])

(* ------------- the index under interleaved callers (grf.py) ------------ *)

\* one actor holding two generators over the same index, with lookups and
\* opens between their steps; the index blobs hold up to MaxRecords records
\* named a or b, or with an empty name (a null byte where a name starts)
InterleaveNames == {NameA, NameB, <<>>}

InitInterleave ==
    /\ entries \in SeqsUpTo([name : InterleaveNames, kind : {"hi"}], MaxRecords)
    /\ Constructed

NextInterleave ==
    \/ \E n \in QueryNames : Get(n)
    \/ \E n \in QueryNames : Open(n)
    \/ \E i \in Iters : IterStart(i, "index")
    \/ \E i \in Iters : IterNext(i)

SpecInterleave == InitInterleave /\ [][NextInterleave]_vars

\* every record of the index has a name
AllNamed == \A k \in 1..Len(entries) : entries[k].name # <<>>

\* the names of the records of the index
RecordNames == {entries[k].name : k \in 1..Len(entries)}

\* C24: an iteration of the index that other calls run between (a lookup or
\* an open of a name not yet cached, a step of a second generator) does not
\* fail, and at its end it has yielded every record of the index.
C24_InterleavedIterationYieldsAll ==
    AllNamed =>
        \A i \in Iters :
            /\ iters[i].phase # "failed"
            /\ iters[i].phase = "done" =>
                 {iters[i].out[k] : k \in 1..Len(iters[i].out)} = RecordNames

\* C26: once an iteration of the index has run to its end, the cache holds
\* every record and the cursor is at the end of the index blob, and no later
\* lookup, open or iteration changes the cache or moves the cursor.
C26_FrozenAfterFullIteration ==
    [][(\E i \in Iters : iters[i].phase = "done") =>
          /\ data_pos = Len(data)
          /\ {indexed[k].name : k \in 1..Len(indexed)} = RecordNames
          /\ indexed' = indexed
          /\ data_pos' = data_pos]_vars

====
